---- MODULE Spec2Model ----
(***************************************************************************)
(* ClusterConfigurationService (lib/services/local/configuration.go): the  *)
(* typed store of the four singleton cluster configuration resources on    *)
(* top of a key-value backend.  Every method is one backend round trip,    *)
(* except UpdateClusterConfig, which reads and then compare-and-swaps; the *)
(* model splits that method at the gap between its two backend calls, so   *)
(* that other callers interleave there.  A second part models AlgSigner    *)
(* (api/utils/signer.go) and the signer it returns, with a state of its    *)
(* own.                                                                    *)
(***************************************************************************)
EXTENDS Integers, Sequences, FiniteSets, TLC

\* Cap of the backend's revision counter: a behaviour holds at most
\* MaxRevision successful writes.
MaxRevision == 2

\* The callers that can be inside UpdateClusterConfig at the same time.  The
\* other methods are one atomic backend call each, whoever calls them.
Procs == {"p1", "p2"}

\* backend.Key(...) of the four resources (configuration.go:278-285).
NameKey == "cluster_configuration/name"
StaticTokensKey == "cluster_configuration/static_tokens"
AuthPreferenceKey == "authentication/preference/general"
ClusterConfigKey == "cluster_configuration/general"
Keys == {NameKey, StaticTokensKey, AuthPreferenceKey, ClusterConfigKey}

\* A resource value: kind, spec (data: the kind's payload; recording: the
\* session-recording mode, "" for the kinds that have none), the declared
\* expiry (0: the zero time, no expiry) and the resource id (0: no revision
\* known).
Resource(kind, data, recording, expires, id) ==
  [kind |-> kind, spec |-> [data |-> data, recording |-> recording],
   expires |-> expires, id |-> id]

NoResource == Resource("", "", "", 0, 0)

\* The session-recording modes CheckAndSetDefaults accepts.
Recordings == {"node", "proxy"}

\* Values the callers hand in: with and without an expiry, with and without
\* the revision of an earlier read.
ClusterNameInputs ==
  { Resource("ClusterName", "prod", "", 0, 0),
    Resource("ClusterName", "prod", "", 1, 1),
    Resource("ClusterName", "staging", "", 1, 0) }

StaticTokensInputs ==
  { Resource("StaticTokens", "tokens", "", 0, 0),
    Resource("StaticTokens", "tokens", "", 1, 1) }

AuthPreferenceInputs ==
  { Resource("AuthPreference", "otp", "", 0, 0),
    Resource("AuthPreference", "otp", "", 1, 1) }

ClusterConfigInputs ==
  { Resource("ClusterConfig", "audit1", "node", 0, 0),
    Resource("ClusterConfig", "audit1", "proxy", 1, 1) }

\* What UpdateClusterConfig is handed: a cluster config with any recording
\* mode, also one that is no known mode, and with other fields (audit
\* configuration, expiry) that differ from the stored ones.
UpdateInputs ==
  { Resource("ClusterConfig", "audit2", "node", 1, 0),
    Resource("ClusterConfig", "audit2", "proxy", 0, 0),
    Resource("ClusterConfig", "audit1", "bogus", 0, 0) }

----------------------------------------------------------------------------
\* The codec (services.Get<Kind>Marshaler).

\* The serialized payload: the value without its resource id.
NoBytes == [kind |-> "", spec |-> [data |-> "", recording |-> ""], expires |-> 0]

\* Marshal(c): the bytes and the error; marshaling a value of the
\* marshaler's own kind does not fail.
Marshal(c) ==
  [err |-> "",
   value |-> [kind |-> c.kind, spec |-> c.spec, expires |-> c.expires]]

\* Unmarshal(bytes, WithResourceID(id), WithExpires(expires)): the decoded
\* value with the options attached.  An option is optional (GetClusterName
\* passes no WithExpires), and a zero time is an expiry not given: the value
\* then keeps the expiry decoded from the bytes.
Unmarshal(bytes, id, expires) ==
  [kind |-> bytes.kind, spec |-> bytes.spec,
   expires |-> IF expires # 0 THEN expires ELSE bytes.expires,
   id |-> id]

\* ClusterConfig.CheckAndSetDefaults: the session-recording mode is a known one.
CheckAndSetDefaults(cc) ==
  IF cc.spec.recording \in Recordings THEN "" ELSE "BadParameter"

\* ClusterConfig.SetSessionRecording
SetSessionRecording(c, recording) ==
  [c EXCEPT !.spec = [c.spec EXCEPT !.recording = recording]]

----------------------------------------------------------------------------
\* The backend (backend.Backend): atomic single-key primitives.  Each takes
\* the store st and returns its error and the store after it; a write is
\* given rev, the revision the backend assigns to the record it stores.

\* backend.Item
Item(key, value, id, expires) ==
  [Key |-> key, Value |-> value, ID |-> id, Expires |-> expires]

\* The absent record of a key.
NoItem(key) == Item(key, NoBytes, 0, 0)

\* A context.Context: where it comes from ("ctx": the method's parameter,
\* supplied by the caller) and whether it is done (cancelled, or past its
\* deadline).
Context(done) == [from |-> "ctx", done |-> done]

\* context.TODO(): nobody's context, never done.
TODO == [from |-> "TODO", done |-> FALSE]

\* The error a backend call ends with before it touches the key: the
\* context's, when the context is done.
CallError(c) == IF c.done THEN "Canceled" ELSE ""

BackendGet(st, c, key) ==
  IF CallError(c) # "" THEN [err |-> CallError(c), item |-> NoItem(key)]
  ELSE IF st[key].ID = 0 THEN [err |-> "NotFound", item |-> NoItem(key)]
  ELSE [err |-> "", item |-> st[key]]

BackendCreate(st, rev, c, i) ==
  IF CallError(c) # "" THEN [err |-> CallError(c), store |-> st]
  ELSE IF st[i.Key].ID # 0 THEN [err |-> "AlreadyExists", store |-> st]
  ELSE [err |-> "", store |-> [st EXCEPT ![i.Key] = [i EXCEPT !.ID = rev]]]

BackendPut(st, rev, c, i) ==
  IF CallError(c) # "" THEN [err |-> CallError(c), store |-> st]
  ELSE [err |-> "", store |-> [st EXCEPT ![i.Key] = [i EXCEPT !.ID = rev]]]

\* The write is applied only if the record at the key still has the revision
\* of the expected record.
BackendCompareAndSwap(st, rev, c, expected, replaceWith) ==
  IF CallError(c) # "" THEN [err |-> CallError(c), store |-> st]
  ELSE IF st[expected.Key].ID = 0 \/ st[expected.Key].ID # expected.ID
  THEN [err |-> "CompareFailed", store |-> st]
  ELSE [err |-> "",
        store |-> [st EXCEPT ![replaceWith.Key] = [replaceWith EXCEPT !.ID = rev]]]

BackendDelete(st, c, key) ==
  IF CallError(c) # "" THEN [err |-> CallError(c), store |-> st]
  ELSE IF st[key].ID = 0 THEN [err |-> "NotFound", store |-> st]
  ELSE [err |-> "", store |-> [st EXCEPT ![key] = NoItem(key)]]

----------------------------------------------------------------------------
\* AlgSigner (api/utils/signer.go).  An ssh.Signer is either a key of the ssh
\* library, which has a public key type and may or may not implement
\* ssh.AlgorithmSigner, or a fixedAlgorithmSigner around such a signer.  A
\* signature is modelled by the call the key received: its method and the
\* algorithm it was handed ("" for none: the key's default).  rand and data
\* are handed on untouched and are left out.

KeyAlgoRSA == "ssh-rsa"
CertAlgoRSAv01 == "ssh-rsa-cert-v01@openssh.com"
KeyAlgoED25519 == "ssh-ed25519"
CertAlgoED25519v01 == "ssh-ed25519-cert-v01@openssh.com"
KeyTypes == {KeyAlgoRSA, CertAlgoRSAv01, KeyAlgoED25519, CertAlgoED25519v01}

\* The alg argument: none, or one of the RSA signature algorithms.
Algs == {"", "ssh-rsa", "rsa-sha2-256", "rsa-sha2-512"}

KeySigner(type, algorithmSigner) ==
  [impl |-> "key", type |-> type, algorithmSigner |-> algorithmSigner]

fixedAlgorithmSigner(as, alg) ==
  [impl |-> "fixedAlgorithmSigner", AlgorithmSigner |-> as, alg |-> alg]

NoSigner == [impl |-> "nil"]

KeySigners == {KeySigner(t, a) : t \in KeyTypes, a \in BOOLEAN}

\* The signers AlgSigner is given: keys, and RSA keys an earlier AlgSigner
\* has wrapped.
Signers ==
  KeySigners \cup
  {fixedAlgorithmSigner(KeySigner(t, TRUE), a) :
     t \in {KeyAlgoRSA, CertAlgoRSAv01}, a \in Algs \ {""}}

\* s.PublicKey().Type(); the wrapper's embedded signer answers for it.
RECURSIVE PublicKeyType(_)
PublicKeyType(s) ==
  IF s.impl = "fixedAlgorithmSigner" THEN PublicKeyType(s.AlgorithmSigner)
  ELSE s.type

\* s.(ssh.AlgorithmSigner)
IsAlgorithmSigner(s) ==
  IF s.impl = "fixedAlgorithmSigner" THEN TRUE ELSE s.algorithmSigner

\* AlgSigner wrapping every signer that implements ssh.AlgorithmSigner,
\* whatever the type of its key.
AlgSigner_AnyKey(s, alg) ==
  IF alg = "" THEN s
  ELSE IF ~IsAlgorithmSigner(s) THEN s
  ELSE fixedAlgorithmSigner(s, alg)

AlgSigner(s, alg) ==
  IF alg = "" THEN s
  ELSE IF PublicKeyType(s) # KeyAlgoRSA /\ PublicKeyType(s) # CertAlgoRSAv01
  THEN s
  ELSE IF ~IsAlgorithmSigner(s) THEN s
  ELSE fixedAlgorithmSigner(s, alg)

NoSigned == [by |-> "", type |-> "", alg |-> ""]

\* The methods of a key: Sign takes no algorithm.
KeySign(s) == [by |-> "Sign", type |-> s.type, alg |-> ""]
KeySignWithAlgorithm(s, alg) ==
  [by |-> "SignWithAlgorithm", type |-> s.type, alg |-> alg]

\* A call of SignWithAlgorithm on an ssh.AlgorithmSigner, dispatched on what
\* implements it.
RECURSIVE SignerSignWithAlgorithm(_, _)

\* fixedAlgorithmSigner.SignWithAlgorithm handing the caller's algorithm on
\* as it is.
SignWithAlgorithm_PassThrough(s, alg) ==
  SignerSignWithAlgorithm(s.AlgorithmSigner, alg)

\* fixedAlgorithmSigner.SignWithAlgorithm
SignWithAlgorithm(s, alg) ==
  SignerSignWithAlgorithm(s.AlgorithmSigner, IF alg = "" THEN s.alg ELSE alg)

SignerSignWithAlgorithm(s, alg) ==
  IF s.impl = "fixedAlgorithmSigner" THEN SignWithAlgorithm(s, alg)
  ELSE KeySignWithAlgorithm(s, alg)

\* fixedAlgorithmSigner.Sign
Sign(s) == SignerSignWithAlgorithm(s.AlgorithmSigner, s.alg)

\* A call of Sign on an ssh.Signer.
SignerSign(s) ==
  IF s.impl = "fixedAlgorithmSigner" THEN Sign(s) ELSE KeySign(s)

----------------------------------------------------------------------------
VARIABLES
  store,         \* the backend: key -> record (ID 0: no record)
  nextID,        \* the revision the backend gives the next write
  pc,            \* per caller: "idle", or "cas" inside UpdateClusterConfig
  existingItem,  \* UpdateClusterConfig's local: the record it read
  update,        \* UpdateClusterConfig's local: the value it will write
  calls,         \* backend calls the caller's running method has issued
  last,          \* the method call that returned last, and what it returned
  args,          \* the arguments of the last AlgSigner call
  signer,        \* the ssh.Signer that call returned
  signature      \* the last call on that signer, and the signature made

vars == <<store, nextID, pc, existingItem, update, calls, last,
          args, signer, signature>>
locals == <<pc, existingItem, update, calls>>
service == <<store, nextID, pc, existingItem, update, calls, last>>
signing == <<args, signer, signature>>

\* A method returns: op, the value it was given (for UpdateClusterConfig
\* past its read: the update it built from that value), its error ("" for
\* nil), the value it returned, the backend calls it issued and the context
\* it handed to them.
Return(op, arg, err, val, cs, c) ==
  last' = [op |-> op, arg |-> arg, err |-> err, val |-> val,
           calls |-> cs, ctx |-> c]

\* A write takes a revision only while the counter is below its cap.
Commit(r) ==
  /\ r.err = "" => nextID <= MaxRevision
  /\ store' = r.store
  /\ nextID' = IF r.err = "" THEN nextID + 1 ELSE nextID

Init ==
  /\ store = [k \in Keys |-> NoItem(k)]
  /\ nextID = 1
  /\ pc = [p \in Procs |-> "idle"]
  /\ existingItem = [p \in Procs |-> NoItem(ClusterConfigKey)]
  /\ update = [p \in Procs |-> NoResource]
  /\ calls = [p \in Procs |-> <<>>]
  /\ last = [op |-> "", arg |-> NoResource, err |-> "", val |-> NoResource,
             calls |-> <<>>, ctx |-> TODO]
  /\ args = [s |-> NoSigner, alg |-> ""]
  /\ signer = NoSigner
  /\ signature = [call |-> "", alg |-> "", made |-> NoSigned]

----------------------------------------------------------------------------
\* The methods of ClusterConfigurationService.  Every method but
\* UpdateClusterConfig takes no context and hands context.TODO() to the
\* backend.

GetClusterName ==
  /\ LET r == BackendGet(store, TODO, NameKey) IN
       Return("GetClusterName", NoResource, r.err,
              IF r.err = "" THEN Unmarshal(r.item.Value, r.item.ID, 0)
              ELSE NoResource,
              <<"Get">>, TODO)
  /\ UNCHANGED <<store, nextID, locals>>
  /\ UNCHANGED signing

DeleteClusterName ==
  /\ LET r == BackendDelete(store, TODO, NameKey) IN
       /\ store' = r.store
       /\ Return("DeleteClusterName", NoResource, r.err, NoResource, <<"Delete">>, TODO)
  /\ UNCHANGED <<nextID, locals>>
  /\ UNCHANGED signing

\* SetClusterName writing with the put of the other setters instead of the
\* create.
SetClusterName_Put ==
  /\ \E c \in ClusterNameInputs :
       LET m == Marshal(c) IN
       IF m.err # ""
       THEN /\ Return("SetClusterName", c, m.err, NoResource, <<>>, TODO)
            /\ UNCHANGED <<store, nextID>>
       ELSE LET r == BackendPut(store, nextID, TODO,
                                Item(NameKey, m.value, 0, c.expires)) IN
            /\ Commit(r)
            /\ Return("SetClusterName", c, r.err, NoResource, <<"Put">>, TODO)
  /\ UNCHANGED locals
  /\ UNCHANGED signing

\* SetClusterName that checks for a record with Get and then writes with
\* Put.  raced: the record now stored was written by another caller after
\* this caller's check, which found none.
SetClusterName_CheckThenPut ==
  /\ \E c \in ClusterNameInputs, raced \in BOOLEAN :
       LET m == Marshal(c)
           g == BackendGet(store, TODO, NameKey) IN
       IF g.err = "" /\ ~raced
       THEN /\ Return("SetClusterName", c, "AlreadyExists", NoResource,
                      <<"Get">>, TODO)
            /\ UNCHANGED <<store, nextID>>
       ELSE LET r == BackendPut(store, nextID, TODO,
                                Item(NameKey, m.value, 0, c.expires)) IN
            /\ Commit(r)
            /\ Return("SetClusterName", c, r.err, NoResource,
                      <<"Get", "Put">>, TODO)
  /\ UNCHANGED locals
  /\ UNCHANGED signing

SetClusterName ==
  /\ \E c \in ClusterNameInputs :
       LET m == Marshal(c) IN
       IF m.err # ""
       THEN /\ Return("SetClusterName", c, m.err, NoResource, <<>>, TODO)
            /\ UNCHANGED <<store, nextID>>
       ELSE LET r == BackendCreate(store, nextID, TODO,
                                   Item(NameKey, m.value, 0, c.expires)) IN
            /\ Commit(r)
            /\ Return("SetClusterName", c, r.err, NoResource, <<"Create">>, TODO)
  /\ UNCHANGED locals
  /\ UNCHANGED signing

UpsertClusterName ==
  /\ \E c \in ClusterNameInputs :
       LET m == Marshal(c) IN
       IF m.err # ""
       THEN /\ Return("UpsertClusterName", c, m.err, NoResource, <<>>, TODO)
            /\ UNCHANGED <<store, nextID>>
       ELSE LET r == BackendPut(store, nextID, TODO,
                                   Item(NameKey, m.value, c.id, c.expires)) IN
            /\ Commit(r)
            /\ Return("UpsertClusterName", c, r.err, NoResource, <<"Put">>, TODO)
  /\ UNCHANGED locals
  /\ UNCHANGED signing

GetStaticTokens ==
  /\ LET r == BackendGet(store, TODO, StaticTokensKey) IN
       Return("GetStaticTokens", NoResource, r.err,
              IF r.err = "" THEN Unmarshal(r.item.Value, r.item.ID, r.item.Expires)
              ELSE NoResource,
              <<"Get">>, TODO)
  /\ UNCHANGED <<store, nextID, locals>>
  /\ UNCHANGED signing

SetStaticTokens ==
  /\ \E c \in StaticTokensInputs :
       LET m == Marshal(c) IN
       IF m.err # ""
       THEN /\ Return("SetStaticTokens", c, m.err, NoResource, <<>>, TODO)
            /\ UNCHANGED <<store, nextID>>
       ELSE LET r == BackendPut(store, nextID, TODO,
                                   Item(StaticTokensKey, m.value, c.id, c.expires)) IN
            /\ Commit(r)
            /\ Return("SetStaticTokens", c, r.err, NoResource, <<"Put">>, TODO)
  /\ UNCHANGED locals
  /\ UNCHANGED signing

\* DeleteStaticTokens made idempotent: NotFound from the backend is not
\* returned.
DeleteStaticTokens_Idempotent ==
  /\ LET r == BackendDelete(store, TODO, StaticTokensKey) IN
       /\ store' = r.store
       /\ Return("DeleteStaticTokens", NoResource,
                 IF r.err = "NotFound" THEN "" ELSE r.err,
                 NoResource, <<"Delete">>, TODO)
  /\ UNCHANGED <<nextID, locals>>
  /\ UNCHANGED signing

DeleteStaticTokens ==
  /\ LET r == BackendDelete(store, TODO, StaticTokensKey) IN
       /\ store' = r.store
       /\ Return("DeleteStaticTokens", NoResource, r.err, NoResource, <<"Delete">>, TODO)
  /\ UNCHANGED <<nextID, locals>>
  /\ UNCHANGED signing

GetAuthPreference ==
  /\ LET r == BackendGet(store, TODO, AuthPreferenceKey) IN
       Return("GetAuthPreference", NoResource, r.err,
              IF r.err = "" THEN Unmarshal(r.item.Value, r.item.ID, r.item.Expires)
              ELSE NoResource,
              <<"Get">>, TODO)
  /\ UNCHANGED <<store, nextID, locals>>
  /\ UNCHANGED signing

SetAuthPreference ==
  /\ \E c \in AuthPreferenceInputs :
       LET m == Marshal(c) IN
       IF m.err # ""
       THEN /\ Return("SetAuthPreference", c, m.err, NoResource, <<>>, TODO)
            /\ UNCHANGED <<store, nextID>>
       ELSE LET r == BackendPut(store, nextID, TODO,
                                   Item(AuthPreferenceKey, m.value, c.id, 0)) IN
            /\ Commit(r)
            /\ Return("SetAuthPreference", c, r.err, NoResource, <<"Put">>, TODO)
  /\ UNCHANGED locals
  /\ UNCHANGED signing

\* getClusterConfig(ctx): the record in raw form and unmarshaled.
getClusterConfig(st, c) ==
  LET r == BackendGet(st, c, ClusterConfigKey) IN
  [err |-> r.err, item |-> r.item,
   cc |-> IF r.err = "" THEN Unmarshal(r.item.Value, r.item.ID, r.item.Expires)
          ELSE NoResource]

GetClusterConfig ==
  /\ LET g == getClusterConfig(store, TODO) IN
       Return("GetClusterConfig", NoResource, g.err, g.cc, <<"Get">>, TODO)
  /\ UNCHANGED <<store, nextID, locals>>
  /\ UNCHANGED signing

\* UpdateClusterConfig reading the record first and validating cc after it.
UpdateClusterConfig_ReadFirst(p) ==
  /\ pc[p] = "idle"
  /\ \E cc \in UpdateInputs, done \in BOOLEAN :
       LET g == getClusterConfig(store, Context(done)) IN
       IF g.err # ""
       THEN /\ Return("UpdateClusterConfig", cc, g.err, NoResource,
                      <<"Get">>, Context(done))
            /\ UNCHANGED <<store, nextID, locals>>
       ELSE IF CheckAndSetDefaults(cc) # ""
       THEN /\ Return("UpdateClusterConfig", cc, CheckAndSetDefaults(cc),
                      NoResource, <<"Get">>, Context(done))
            /\ UNCHANGED <<store, nextID, locals>>
       ELSE /\ pc' = [pc EXCEPT ![p] = "cas"]
            /\ existingItem' = [existingItem EXCEPT ![p] = g.item]
            /\ update' = [update EXCEPT ![p] =
                            SetSessionRecording(g.cc, cc.spec.recording)]
            /\ calls' = [calls EXCEPT ![p] = <<"Get">>]
            /\ UNCHANGED <<store, nextID, last>>
  /\ UNCHANGED signing

\* UpdateClusterConfig up to its compare-and-swap (lines 193-200): validate
\* cc, read the record under ctx, set cc's session recording on the value
\* read.  done: ctx is done when the read is issued.
\* UpdateClusterConfig creating the record when its read finds none.
UpdateClusterConfig_CreateIfMissing(p) ==
  /\ pc[p] = "idle"
  /\ \E cc \in UpdateInputs, done \in BOOLEAN :
       IF CheckAndSetDefaults(cc) # ""
       THEN /\ Return("UpdateClusterConfig", cc, CheckAndSetDefaults(cc),
                      NoResource, <<>>, Context(done))
            /\ UNCHANGED <<store, nextID, locals>>
       ELSE LET g == getClusterConfig(store, Context(done)) IN
            IF g.err = "NotFound"
            THEN LET r == BackendPut(store, nextID, Context(done),
                                     Item(ClusterConfigKey, Marshal(cc).value,
                                          0, cc.expires)) IN
                 /\ Commit(r)
                 /\ Return("UpdateClusterConfig", cc, r.err, NoResource,
                           <<"Get", "Put">>, Context(done))
                 /\ UNCHANGED locals
            ELSE IF g.err # ""
            THEN /\ Return("UpdateClusterConfig", cc, g.err, NoResource,
                           <<"Get">>, Context(done))
                 /\ UNCHANGED <<store, nextID, locals>>
            ELSE /\ pc' = [pc EXCEPT ![p] = "cas"]
                 /\ existingItem' = [existingItem EXCEPT ![p] = g.item]
                 /\ update' = [update EXCEPT ![p] =
                                 SetSessionRecording(g.cc, cc.spec.recording)]
                 /\ calls' = [calls EXCEPT ![p] = <<"Get">>]
                 /\ UNCHANGED <<store, nextID, last>>
  /\ UNCHANGED signing

UpdateClusterConfig(p) ==
  /\ pc[p] = "idle"
  /\ \E cc \in UpdateInputs, done \in BOOLEAN :
       IF CheckAndSetDefaults(cc) # ""
       THEN /\ Return("UpdateClusterConfig", cc, CheckAndSetDefaults(cc),
                      NoResource, <<>>, Context(done))
            /\ UNCHANGED <<store, nextID, locals>>
       ELSE LET g == getClusterConfig(store, Context(done)) IN
            IF g.err # ""
            THEN /\ Return("UpdateClusterConfig", cc, g.err, NoResource,
                           <<"Get">>, Context(done))
                 /\ UNCHANGED <<store, nextID, locals>>
            ELSE /\ pc' = [pc EXCEPT ![p] = "cas"]
                 /\ existingItem' = [existingItem EXCEPT ![p] = g.item]
                 /\ update' = [update EXCEPT ![p] =
                                 SetSessionRecording(g.cc, cc.spec.recording)]
                 /\ calls' = [calls EXCEPT ![p] = <<"Get">>]
                 /\ UNCHANGED <<store, nextID, last>>
  /\ UNCHANGED signing

\* The method is over: its locals are gone.
Leave(p) ==
  /\ pc' = [pc EXCEPT ![p] = "idle"]
  /\ existingItem' = [existingItem EXCEPT ![p] = NoItem(ClusterConfigKey)]
  /\ update' = [update EXCEPT ![p] = NoResource]
  /\ calls' = [calls EXCEPT ![p] = <<>>]

\* UpdateClusterConfig dropping the error of a failed compare-and-swap.
UpdateClusterConfigCAS_Swallow(p) ==
  /\ pc[p] = "cas"
  /\ \E done \in BOOLEAN :
       LET m == Marshal(update[p])
           updateItem == Item(ClusterConfigKey, m.value, 0, update[p].expires)
           r == BackendCompareAndSwap(store, nextID, Context(done),
                                      existingItem[p], updateItem) IN
       /\ Commit(r)
       /\ Return("UpdateClusterConfig", update[p],
                 IF r.err = "CompareFailed" THEN "" ELSE r.err,
                 NoResource, Append(calls[p], "CompareAndSwap"), Context(done))
  /\ Leave(p)
  /\ UNCHANGED signing

\* UpdateClusterConfig falling back to a put when the compare-and-swap
\* fails, and still reporting the failure.
UpdateClusterConfigCAS_Fallback(p) ==
  /\ pc[p] = "cas"
  /\ \E done \in BOOLEAN :
       LET m == Marshal(update[p])
           updateItem == Item(ClusterConfigKey, m.value, 0, update[p].expires)
           r == BackendCompareAndSwap(store, nextID, Context(done),
                                      existingItem[p], updateItem)
           w == BackendPut(store, nextID, Context(done), updateItem) IN
       /\ r.err = "" \/ (r.err = "CompareFailed" /\ w.err = "") => nextID <= MaxRevision
       /\ store' = IF r.err = "CompareFailed" THEN w.store ELSE r.store
       /\ nextID' = IF r.err \in {"", "CompareFailed"} THEN nextID + 1 ELSE nextID
       /\ Return("UpdateClusterConfig", update[p], r.err, NoResource,
                 Append(calls[p], "CompareAndSwap"), Context(done))
  /\ Leave(p)
  /\ UNCHANGED signing

\* UpdateClusterConfig reading the record again and swapping once more when
\* its compare-and-swap fails.
UpdateClusterConfigCAS_Retry(p) ==
  /\ pc[p] = "cas"
  /\ \E done \in BOOLEAN :
       LET m == Marshal(update[p])
           updateItem == Item(ClusterConfigKey, m.value, 0, update[p].expires)
           r == BackendCompareAndSwap(store, nextID, Context(done),
                                      existingItem[p], updateItem)
           g == getClusterConfig(store, Context(done))
           again == SetSessionRecording(g.cc, update[p].spec.recording)
           r2 == BackendCompareAndSwap(store, nextID, Context(done), g.item,
                   Item(ClusterConfigKey, Marshal(again).value, 0, again.expires)) IN
       IF r.err # "CompareFailed"
       THEN /\ Commit(r)
            /\ Return("UpdateClusterConfig", update[p], r.err, NoResource,
                      Append(calls[p], "CompareAndSwap"), Context(done))
       ELSE IF g.err # ""
       THEN /\ UNCHANGED <<store, nextID>>
            /\ Return("UpdateClusterConfig", update[p], g.err, NoResource,
                      calls[p] \o <<"CompareAndSwap", "Get">>, Context(done))
       ELSE /\ Commit(r2)
            /\ Return("UpdateClusterConfig", again, r2.err, NoResource,
                      calls[p] \o <<"CompareAndSwap", "Get", "CompareAndSwap">>,
                      Context(done))
  /\ Leave(p)
  /\ UNCHANGED signing

\* UpdateClusterConfig from the marshaling of the update on (lines 202-219).
\* done: ctx was cancelled, or its deadline passed, since the read.
\* UpdateClusterConfig returning nil without a compare-and-swap when the
\* update it built equals the record it read.
UpdateClusterConfigCAS_SkipUnchanged(p) ==
  /\ pc[p] = "cas"
  /\ \E done \in BOOLEAN :
       LET m == Marshal(update[p])
           updateItem == Item(ClusterConfigKey, m.value, 0, update[p].expires)
           r == BackendCompareAndSwap(store, nextID, Context(done),
                                      existingItem[p], updateItem) IN
       IF m.value = existingItem[p].Value
       THEN /\ Return("UpdateClusterConfig", update[p], "", NoResource,
                      calls[p], Context(done))
            /\ UNCHANGED <<store, nextID>>
       ELSE /\ Commit(r)
            /\ Return("UpdateClusterConfig", update[p], r.err, NoResource,
                      Append(calls[p], "CompareAndSwap"), Context(done))
  /\ Leave(p)
  /\ UNCHANGED signing

\* UpdateClusterConfig writing its update with Put, the revision it read
\* handed along in the item, instead of CompareAndSwap.
UpdateClusterConfigCAS_Put(p) ==
  /\ pc[p] = "cas"
  /\ \E done \in BOOLEAN :
       LET m == Marshal(update[p])
           updateItem == Item(ClusterConfigKey, m.value, existingItem[p].ID,
                              update[p].expires)
           r == BackendPut(store, nextID, Context(done), updateItem) IN
       /\ Commit(r)
       /\ Return("UpdateClusterConfig", update[p], r.err, NoResource,
                 Append(calls[p], "Put"), Context(done))
  /\ Leave(p)
  /\ UNCHANGED signing

\* UpdateClusterConfig handing CompareAndSwap an expected item rebuilt from
\* the key and the value it read, without the revision.
UpdateClusterConfigCAS_NoRevision(p) ==
  /\ pc[p] = "cas"
  /\ \E done \in BOOLEAN :
       LET m == Marshal(update[p])
           updateItem == Item(ClusterConfigKey, m.value, 0, update[p].expires)
           expected == Item(ClusterConfigKey, existingItem[p].Value, 0, 0)
           r == BackendCompareAndSwap(store, nextID, Context(done),
                                      expected, updateItem) IN
       /\ Commit(r)
       /\ Return("UpdateClusterConfig", update[p], r.err, NoResource,
                 Append(calls[p], "CompareAndSwap"), Context(done))
  /\ Leave(p)
  /\ UNCHANGED signing

UpdateClusterConfigCAS(p) ==
  /\ pc[p] = "cas"
  /\ \E done \in BOOLEAN :
       LET m == Marshal(update[p]) IN
       IF m.err # ""
       THEN /\ Return("UpdateClusterConfig", update[p], m.err, NoResource,
                      calls[p], Context(done))
            /\ UNCHANGED <<store, nextID>>
       ELSE LET updateItem == Item(ClusterConfigKey, m.value, 0, update[p].expires)
                r == BackendCompareAndSwap(store, nextID, Context(done),
                                           existingItem[p], updateItem) IN
            /\ Commit(r)
            /\ Return("UpdateClusterConfig", update[p],
                      IF r.err = "CompareFailed" THEN "CompareFailed" ELSE r.err,
                      NoResource, Append(calls[p], "CompareAndSwap"), Context(done))
  /\ Leave(p)
  /\ UNCHANGED signing

\* DeleteClusterConfig deleting at the key of the static tokens.
DeleteClusterConfig_WrongKey ==
  /\ LET r == BackendDelete(store, TODO, StaticTokensKey) IN
       /\ store' = r.store
       /\ Return("DeleteClusterConfig", NoResource, r.err, NoResource, <<"Delete">>, TODO)
  /\ UNCHANGED <<nextID, locals>>
  /\ UNCHANGED signing

DeleteClusterConfig ==
  /\ LET r == BackendDelete(store, TODO, ClusterConfigKey) IN
       /\ store' = r.store
       /\ Return("DeleteClusterConfig", NoResource, r.err, NoResource, <<"Delete">>, TODO)
  /\ UNCHANGED <<nextID, locals>>
  /\ UNCHANGED signing

\* SetClusterConfig with conflict detection: a value that carries a revision
\* is written only over the record of that revision.
SetClusterConfig_Conditional ==
  /\ \E c \in ClusterConfigInputs :
       LET m == Marshal(c)
           i == Item(ClusterConfigKey, m.value, c.id, 0)
           r == IF c.id = 0 THEN BackendPut(store, nextID, TODO, i)
                ELSE BackendCompareAndSwap(store, nextID, TODO, i, i) IN
       /\ Commit(r)
       /\ Return("SetClusterConfig", c, r.err, NoResource, <<"Put">>, TODO)
  /\ UNCHANGED locals
  /\ UNCHANGED signing

SetClusterConfig ==
  /\ \E c \in ClusterConfigInputs :
       LET m == Marshal(c) IN
       IF m.err # ""
       THEN /\ Return("SetClusterConfig", c, m.err, NoResource, <<>>, TODO)
            /\ UNCHANGED <<store, nextID>>
       ELSE LET r == BackendPut(store, nextID, TODO,
                                   Item(ClusterConfigKey, m.value, c.id, 0)) IN
            /\ Commit(r)
            /\ Return("SetClusterConfig", c, r.err, NoResource, <<"Put">>, TODO)
  /\ UNCHANGED locals
  /\ UNCHANGED signing

Next ==
  \/ GetClusterName
  \/ DeleteClusterName
  \/ SetClusterName
  \/ UpsertClusterName
  \/ GetStaticTokens
  \/ SetStaticTokens
  \/ DeleteStaticTokens
  \/ GetAuthPreference
  \/ SetAuthPreference
  \/ GetClusterConfig
  \/ \E p \in Procs : UpdateClusterConfig(p)
  \/ \E p \in Procs : UpdateClusterConfigCAS(p)
  \/ DeleteClusterConfig
  \/ SetClusterConfig

Spec == Init /\ [][Next]_vars

----------------------------------------------------------------------------
\* A caller that re-invokes UpdateClusterConfig after each CompareFailed,
\* against competing writers that stop.  The caller asks for the "proxy"
\* session recording with a live context; the competitors are another
\* caller of UpdateClusterConfig, asking for anything else, and
\* SetClusterConfig.  The competitors write only while a revision below the
\* cap is left, so that their writes stop.

Retrier == "p1"

\* The record is there when the caller starts: written by a SetClusterConfig
\* before, under a revision the backend will not give again.
RetryInit ==
  /\ \E c \in ClusterConfigInputs :
       store = [k \in Keys |->
                  IF k = ClusterConfigKey
                  THEN Item(k, Marshal(c).value, MaxRevision + 1, 0)
                  ELSE NoItem(k)]
  /\ nextID = 1
  /\ pc = [p \in Procs |-> "idle"]
  /\ existingItem = [p \in Procs |-> NoItem(ClusterConfigKey)]
  /\ update = [p \in Procs |-> NoResource]
  /\ calls = [p \in Procs |-> <<>>]
  /\ last = [op |-> "", arg |-> NoResource, err |-> "", val |-> NoResource,
             calls |-> <<>>, ctx |-> TODO]
  /\ args = [s |-> NoSigner, alg |-> ""]
  /\ signer = NoSigner
  /\ signature = [call |-> "", alg |-> "", made |-> NoSigned]

\* The retrying caller's UpdateClusterConfig, invoked whenever it is not
\* inside one.
Retry ==
  \/ /\ UpdateClusterConfig(Retrier)
     /\ pc'[Retrier] = "cas"
     /\ update'[Retrier].spec.recording = "proxy"
  \/ /\ UpdateClusterConfigCAS(Retrier)
     /\ ~last'.ctx.done

CompetingUpdate ==
  /\ \E p \in Procs \ {Retrier} :
       \/ /\ UpdateClusterConfig(p)
          /\ pc'[p] = "cas" => update'[p].spec.recording # "proxy"
       \/ UpdateClusterConfigCAS(p)
  /\ nextID' # nextID => nextID < MaxRevision

CompetingSet ==
  /\ SetClusterConfig
  /\ nextID < MaxRevision

RetryNext ==
  \/ Retry
  \/ CompetingUpdate
  \/ CompetingSet

\* The retrying caller keeps running: it gets to take its next step.
RetrySpec == RetryInit /\ [][RetryNext]_vars /\ WF_vars(Retry)

----------------------------------------------------------------------------
\* The calls of AlgSigner and of the signer it returns.

CallAlgSigner ==
  /\ \E s \in Signers, alg \in Algs :
       /\ args' = [s |-> s, alg |-> alg]
       /\ signer' = AlgSigner(s, alg)
  /\ signature' = [call |-> "", alg |-> "", made |-> NoSigned]
  /\ UNCHANGED service

CallSign ==
  /\ signer # NoSigner
  /\ signature' = [call |-> "Sign", alg |-> "", made |-> SignerSign(signer)]
  /\ UNCHANGED <<args, signer, service>>

\* Only a signer that implements ssh.AlgorithmSigner has the method.
CallSignWithAlgorithm ==
  /\ signer # NoSigner
  /\ IsAlgorithmSigner(signer)
  /\ \E alg \in Algs :
       signature' = [call |-> "SignWithAlgorithm", alg |-> alg,
                     made |-> SignerSignWithAlgorithm(signer, alg)]
  /\ UNCHANGED <<args, signer, service>>

SignerNext ==
  \/ CallAlgSigner
  \/ CallSign
  \/ CallSignWithAlgorithm

SignerSpec == Init /\ [][SignerNext]_vars

----------------------------------------------------------------------------
\* Properties.

K == ClusterConfigKey

Upserts ==
  {"UpsertClusterName", "SetStaticTokens", "SetAuthPreference", "SetClusterConfig"}

\* The key a method works on.
KeyOf(op) ==
  CASE op \in {"GetClusterName", "DeleteClusterName", "SetClusterName",
               "UpsertClusterName"} -> NameKey
    [] op \in {"GetStaticTokens", "SetStaticTokens", "DeleteStaticTokens"}
         -> StaticTokensKey
    [] op \in {"GetAuthPreference", "SetAuthPreference"} -> AuthPreferenceKey
    [] OTHER -> ClusterConfigKey

\* C1: SetClusterName on a key that holds a record returns AlreadyExists and
\* leaves every record as it is; SetClusterName that succeeds stores the
\* value it was given; and SetClusterName right after a SetClusterName that
\* succeeded returns AlreadyExists, whatever value it is given, with the
\* first call's value still stored.
C1_CreateOnce ==
  [][SetClusterName =>
       /\ store[NameKey].ID # 0 =>
            last'.err = "AlreadyExists" /\ store' = store
       /\ last'.err = "" =>
            /\ store[NameKey].ID = 0
            /\ store'[NameKey].ID # 0
            /\ store'[NameKey].Value = Marshal(last'.arg).value
       /\ last.op = "SetClusterName" /\ last.err = "" =>
            /\ last'.err = "AlreadyExists"
            /\ store'[NameKey].Value = Marshal(last.arg).value]_vars

\* C1 witness: a SetClusterName with a value other than the stored one has
\* returned AlreadyExists.
C1_Witness ==
  /\ last.op = "SetClusterName"
  /\ last.err = "AlreadyExists"
  /\ store[NameKey].ID # 0
  /\ store[NameKey].Value # Marshal(last.arg).value

\* C2: when the ClusterConfig record's revision is no longer the one
\* UpdateClusterConfig read (another caller wrote the record in between,
\* with the same payload or another), its compare-and-swap, reaching the
\* backend with a live context, fails with CompareFailed and every record
\* stays as the other caller left it.
C2_ConcurrentWriteFails ==
  [][\A p \in Procs :
       (/\ UpdateClusterConfigCAS(p)
        /\ store[K].ID # 0
        /\ store[K].ID # existingItem[p].ID
        /\ ~last'.ctx.done)
       => (last'.err = "CompareFailed" /\ store' = store)]_vars

\* C2 witness: an UpdateClusterConfig has failed with CompareFailed, and
\* another one is in flight whose record was rewritten with the very payload
\* and expiry it read.
C2_Witness ==
  /\ last.op = "UpdateClusterConfig"
  /\ last.err = "CompareFailed"
  /\ \E q \in Procs :
       /\ pc[q] = "cas"
       /\ store[K].ID # 0
       /\ store[K].ID # existingItem[q].ID
       /\ store[K].Value = existingItem[q].Value
       /\ store[K].Expires = existingItem[q].Expires

\* C3 (as claimed): a successful UpdateClusterConfig stores the record it
\* read with the session recording replaced by the caller's; the payload's
\* other fields, the record's expiry and the other keys are unchanged.
C3_OnlySessionRecording ==
  [][\A p \in Procs :
       (UpdateClusterConfigCAS(p) /\ last'.err = "")
       => /\ store'[K].Value =
               [existingItem[p].Value EXCEPT
                  !.spec.recording = update[p].spec.recording]
          /\ store'[K].Expires = existingItem[p].Expires
          /\ \A k \in Keys \ {K} : store'[k] = store[k]]_vars

\* What a Get right after a successful upsert of the same key must return
\* for the round trip to hold: the value written, with the stored record's
\* revision and expiry.
RoundTrip(upsert) ==
  (last.op = upsert /\ last.err = "")
  => /\ last'.err = ""
     /\ last'.val = [last.arg EXCEPT !.id = store[KeyOf(upsert)].ID]
     /\ last'.val.expires = store[KeyOf(upsert)].Expires

\* C4 (as claimed): for each of the four kinds, the Get right after a
\* successful upsert returns the value written, carrying the revision and
\* the expiry of the stored record.
C4_UpsertGetRoundTrip ==
  [][/\ GetClusterName => RoundTrip("UpsertClusterName")
     /\ GetStaticTokens => RoundTrip("SetStaticTokens")
     /\ GetAuthPreference => RoundTrip("SetAuthPreference")
     /\ GetClusterConfig => RoundTrip("SetClusterConfig")]_vars

\* C5 (as claimed): after a successful upsert of any kind the stored
\* record's expiry is the expiry declared on the value passed in.
C5_UpsertKeepsExpiry ==
  (last.op \in Upserts /\ last.err = "")
  => store[KeyOf(last.op)].Expires = last.arg.expires

\* C6: for each kind that has a Delete (ClusterName, StaticTokens,
\* ClusterConfig; there is no Delete of AuthPreference), the Get right after
\* a successful Delete returns NotFound.
C6_GetAfterDelete ==
  [][/\ (GetClusterName /\ last.op = "DeleteClusterName" /\ last.err = "")
          => last'.err = "NotFound"
     /\ (GetStaticTokens /\ last.op = "DeleteStaticTokens" /\ last.err = "")
          => last'.err = "NotFound"
     /\ (GetClusterConfig /\ last.op = "DeleteClusterConfig" /\ last.err = "")
          => last'.err = "NotFound"]_vars

\* C6 witness: GetClusterConfig has returned NotFound for a record that
\* existed (a caller inside UpdateClusterConfig has read it) and was deleted.
C6_Witness ==
  /\ last.op = "GetClusterConfig"
  /\ last.err = "NotFound"
  /\ \E p \in Procs : pc[p] = "cas" /\ existingItem[p].ID # 0

\* C7: a step after which the last method call has returned an error
\* leaves every record, and the revision counter, as they were.
C7_ErrorLeavesStore ==
  [][last'.err # "" => (store' = store /\ nextID' = nextID)]_vars

\* C7 witness: UpdateClusterConfig was cancelled between its read and its
\* compare-and-swap and has returned the cancellation error, with the
\* record it read still stored.
C7_Witness ==
  /\ last.op = "UpdateClusterConfig"
  /\ last.err = "Canceled"
  /\ last.calls = <<"Get", "CompareAndSwap">>
  /\ store[K].ID # 0

\* C8: UpdateClusterConfig given a value that fails CheckAndSetDefaults
\* returns the validation error, having issued no backend call, and leaves
\* every record as it is.
C8_ValidationFirst ==
  [][(last'.op = "UpdateClusterConfig" /\ CheckAndSetDefaults(last'.arg) # "")
     => /\ last'.err = "BadParameter"
        /\ last'.calls = <<>>
        /\ store' = store]_vars

\* C8 witness: UpdateClusterConfig has rejected an invalid value while a
\* ClusterConfig record is stored.
C8_Witness ==
  /\ last.op = "UpdateClusterConfig"
  /\ CheckAndSetDefaults(last.arg) # ""
  /\ last.err = "BadParameter"
  /\ store[K].ID # 0

\* The backend calls of UpdateClusterConfig: at most one Get, then at most
\* one CompareAndSwap, and nothing after a failed CompareAndSwap.
UpdateCallsOnce ==
  /\ \A p \in Procs : pc[p] = "cas" => calls[p] = <<"Get">>
  /\ last.op = "UpdateClusterConfig" =>
       /\ last.calls \in {<<>>, <<"Get">>, <<"Get", "CompareAndSwap">>}
       /\ last.err = "CompareFailed" => last.calls = <<"Get", "CompareAndSwap">>

\* C9: UpdateClusterConfig issues at most one Get and then at most one
\* CompareAndSwap, returning CompareFailed after a failed CompareAndSwap
\* without a further call; every other method issues exactly one backend
\* call.
C9_NoRetry ==
  /\ UpdateCallsOnce
  /\ last.op \notin {"", "UpdateClusterConfig"} => Len(last.calls) = 1

\* C9 witness: UpdateClusterConfig has returned CompareFailed after one Get
\* and one CompareAndSwap.
C9_Witness ==
  /\ last.op = "UpdateClusterConfig"
  /\ last.err = "CompareFailed"
  /\ last.calls = <<"Get", "CompareAndSwap">>

\* C10 (as claimed): every method hands the context its caller supplied to
\* its backend calls, and a method whose context is done fails with the
\* cancellation error.
C10_CallerContextHonored ==
  (last.op # "" /\ last.calls # <<>>)
  => /\ last.ctx.from = "ctx"
     /\ last.ctx.done => last.err = "Canceled"

\* An upsert step: it succeeds and leaves at its key a record with the
\* payload of the value it was given and the revision of this write, the
\* other keys as they were.
LastWriterWins(op) ==
  /\ last'.op = op
  /\ last'.err = ""
  /\ store'[KeyOf(op)].Value = Marshal(last'.arg).value
  /\ store'[KeyOf(op)].ID = nextID
  /\ \A k \in Keys \ {KeyOf(op)} : store'[k] = store[k]

GetOfAbsent(key) ==
  store[key].ID = 0 => (last'.err = "NotFound" /\ store' = store)

\* A Delete step: NotFound on a key with no record, success on a key with
\* one; no record at the key after it either way, the other keys as they
\* were.
DeleteOf(key) ==
  /\ last'.err = IF store[key].ID = 0 THEN "NotFound" ELSE ""
  /\ store'[key] = NoItem(key)
  /\ \A k \in Keys \ {key} : store'[k] = store[k]

\* C12: every Get and every Delete on a key with no record returns NotFound
\* and leaves the key without a record; every Delete on a key with a record
\* succeeds and leaves the key without a record.
C12_NotFoundAndDelete ==
  [][/\ GetClusterName => GetOfAbsent(NameKey)
     /\ GetStaticTokens => GetOfAbsent(StaticTokensKey)
     /\ GetAuthPreference => GetOfAbsent(AuthPreferenceKey)
     /\ GetClusterConfig => GetOfAbsent(ClusterConfigKey)
     /\ DeleteClusterName => DeleteOf(NameKey)
     /\ DeleteStaticTokens => DeleteOf(StaticTokensKey)
     /\ DeleteClusterConfig => DeleteOf(ClusterConfigKey)]_vars

\* C12 witness: DeleteStaticTokens has returned NotFound after the one
\* record written so far was deleted by a successful Delete, and no key
\* holds a record.
C12_Witness ==
  /\ last.op = "DeleteStaticTokens"
  /\ last.err = "NotFound"
  /\ nextID = 2
  /\ \A k \in Keys : store[k].ID = 0

Gets ==
  {"GetClusterName", "GetStaticTokens", "GetAuthPreference", "GetClusterConfig"}

Deletes == {"DeleteClusterName", "DeleteStaticTokens", "DeleteClusterConfig"}

\* The transitions of the record at key k in one step: from absent to
\* present by a successful create or upsert of k only, from one record to
\* another by a successful upsert or conditional update of k only, from
\* present to absent by a successful Delete of k only.
RecordTransitions(k) ==
  /\ (store[k].ID = 0 /\ store'[k].ID # 0) =>
       /\ last'.op \in Upserts \cup {"SetClusterName"}
       /\ KeyOf(last'.op) = k
       /\ last'.err = ""
  /\ (store[k].ID # 0 /\ store'[k].ID # 0 /\ store'[k] # store[k]) =>
       /\ last'.op \in Upserts \cup {"UpdateClusterConfig"}
       /\ KeyOf(last'.op) = k
       /\ last'.err = ""
  /\ (store[k].ID # 0 /\ store'[k].ID = 0) =>
       /\ last'.op \in Deletes
       /\ KeyOf(last'.op) = k
       /\ last'.err = ""

\* C13: the record of each key changes by the transitions above only; a Get
\* changes no record; and UpdateClusterConfig that finds no ClusterConfig
\* record changes no record and, given a valid value and a live context,
\* returns NotFound after its Get, having issued no write.
C13_RecordLifecycle ==
  [][/\ \A k \in Keys : RecordTransitions(k)
     /\ (GetClusterName \/ GetStaticTokens \/ GetAuthPreference
           \/ GetClusterConfig) => store' = store
     /\ \A p \in Procs :
          (UpdateClusterConfig(p) /\ store[K].ID = 0) =>
            /\ store' = store
            /\ pc'[p] = "idle"
            /\ (CheckAndSetDefaults(last'.arg) = "" /\ ~last'.ctx.done) =>
                 (last'.err = "NotFound" /\ last'.calls = <<"Get">>)]_vars

\* C13 witness: UpdateClusterConfig has returned NotFound with no
\* ClusterConfig record stored, after the record had existed (another
\* caller has read it) and was deleted.
C13_Witness ==
  /\ last.op = "UpdateClusterConfig"
  /\ last.err = "NotFound"
  /\ store[K].ID = 0
  /\ \E p \in Procs : pc[p] = "cas" /\ existingItem[p].ID # 0

\* C14: AlgSigner returns the signer it was given, not a wrapper, when alg
\* is empty, or the type of the public key is neither RSA nor RSA
\* certificate, or the signer does not implement ssh.AlgorithmSigner; in
\* every other case it returns a fixedAlgorithmSigner around that signer,
\* bound to alg.
C14_AlgSignerWraps ==
  signer # NoSigner =>
    IF \/ args.alg = ""
       \/ PublicKeyType(args.s) \notin {KeyAlgoRSA, CertAlgoRSAv01}
       \/ ~IsAlgorithmSigner(args.s)
    THEN signer = args.s
    ELSE /\ signer.impl = "fixedAlgorithmSigner"
         /\ signer.AlgorithmSigner = args.s
         /\ signer.alg = args.alg

\* C14 witness: given an RSA key that does not implement
\* ssh.AlgorithmSigner and a non-empty alg, AlgSigner has returned the key
\* itself, and the key has signed with its own Sign.
C14_Witness ==
  /\ args.alg = "rsa-sha2-512"
  /\ args.s = KeySigner(KeyAlgoRSA, FALSE)
  /\ signer = args.s
  /\ signature.call = "Sign"
  /\ signature.made = KeySign(args.s)

\* Caller q is inside UpdateClusterConfig with a read the record has moved
\* away from.
Stale(q) == pc[q] = "cas" /\ existingItem[q].ID # store[K].ID

\* C15: of the UpdateClusterConfig calls that have read the same revision
\* at most one succeeds, whatever values they request: the compare-and-swap
\* that succeeds leaves every other caller holding that revision with a
\* stale read, a stale read stays stale until its caller's compare-and-swap,
\* and a compare-and-swap with a stale read fails, with CompareFailed when
\* its context is live, and writes nothing.
C15_OneSwapWins ==
  [][\A p \in Procs :
       /\ (UpdateClusterConfigCAS(p) /\ last'.err = "") =>
            \A q \in Procs \ {p} :
              (pc[q] = "cas" /\ existingItem[q].ID = existingItem[p].ID)
              => Stale(q)'
       /\ (Stale(p) /\ pc'[p] = "cas") => Stale(p)'
       /\ (UpdateClusterConfigCAS(p) /\ Stale(p)) =>
            /\ last'.err # ""
            /\ ~last'.ctx.done => last'.err = "CompareFailed"
            /\ store' = store]_vars

\* C15 witness: two callers read the same record and requested the session
\* recording it already had; the compare-and-swap of one has succeeded,
\* storing the payload that was there, and the other, still in flight with
\* the same update, holds a stale read.
C15_Witness ==
  /\ last.op = "UpdateClusterConfig"
  /\ last.err = ""
  /\ \E q \in Procs :
       /\ Stale(q)
       /\ update[q] = last.arg
       /\ existingItem[q].Value = store[K].Value
       /\ existingItem[q].Value = Marshal(update[q]).value

\* C16: SetClusterName is one atomic Create, so SetClusterName calls racing
\* on a key with no record are applied one after the other in some order:
\* the call applied to the key without a record succeeds and stores its own
\* value, and a call applied to the key with a record, whatever its value,
\* returns AlreadyExists and leaves the stored record as it is.
C16_ConcurrentCreate ==
  [][SetClusterName =>
       /\ (last'.err = "") <=> (store[NameKey].ID = 0)
       /\ last'.err = "" =>
            /\ store'[NameKey].Value = Marshal(last'.arg).value
            /\ store'[NameKey].Expires = last'.arg.expires
            /\ store'[NameKey].ID = nextID
       /\ last'.err # "" =>
            /\ last'.err = "AlreadyExists"
            /\ store' = store
            /\ nextID' = nextID]_vars

\* C16 witness: the cluster name was written once, by the first write of
\* all, and a SetClusterName with another name has returned AlreadyExists.
C16_Witness ==
  /\ last.op = "SetClusterName"
  /\ last.err = "AlreadyExists"
  /\ last.calls = <<"Create">>
  /\ nextID = 2
  /\ store[NameKey].ID = 1
  /\ store[NameKey].Value.spec.data # last.arg.spec.data

\* C17: when the ClusterConfig record UpdateClusterConfig read has been
\* deleted by the time of its compare-and-swap, the call fails, with
\* CompareFailed when its context is live, and the key still holds no
\* record after it.
C17_NoResurrection ==
  [][\A p \in Procs :
       (UpdateClusterConfigCAS(p) /\ store[K].ID = 0) =>
         /\ existingItem[p].ID # 0
         /\ last'.err # ""
         /\ ~last'.ctx.done => last'.err = "CompareFailed"
         /\ store'[K] = NoItem(K)
         /\ store' = store]_vars

\* C17 witness: UpdateClusterConfig has returned CompareFailed from its
\* compare-and-swap while no ClusterConfig record is stored: the record it
\* read, the only one ever written, was deleted in between.
C17_Witness ==
  /\ last.op = "UpdateClusterConfig"
  /\ last.err = "CompareFailed"
  /\ last.calls = <<"Get", "CompareAndSwap">>
  /\ store[K].ID = 0
  /\ nextID = 2

\* The retrying caller's call (the one asking for "proxy" with a valid
\* value) has returned err.
RetrierReturned(err) ==
  /\ last.op = "UpdateClusterConfig"
  /\ last.arg.spec.recording = "proxy"
  /\ last.calls = <<"Get", "CompareAndSwap">>
  /\ last.err = err

\* C18: a compare-and-swap of UpdateClusterConfig that runs with a live
\* context while the record is still the one its caller read (the first to
\* run of those that read it) succeeds and stores its update; and a caller
\* that re-invokes UpdateClusterConfig after each CompareFailed and gets to
\* run succeeds after every CompareFailed once the competing writes stop.
C18_Progress ==
  /\ [][\A p \in Procs :
          (/\ UpdateClusterConfigCAS(p)
           /\ store[K].ID # 0
           /\ store[K].ID = existingItem[p].ID
           /\ ~last'.ctx.done)
          => /\ last'.err = ""
             /\ store'[K].ID = nextID
             /\ store'[K].Value = Marshal(update[p]).value]_vars
  /\ RetrierReturned("CompareFailed") ~> RetrierReturned("")

\* C18 witness: the retrying caller's last call has returned CompareFailed,
\* the competing writes have stopped (the one revision left is below no
\* competitor's bound), and the caller is inside its next call with a read
\* of the record as it now is.
C18_Witness ==
  /\ RetrierReturned("CompareFailed")
  /\ nextID = MaxRevision
  /\ pc[Retrier] = "cas"
  /\ existingItem[Retrier].ID = store[K].ID

\* C19: a fixedAlgorithmSigner returned by AlgSigner is bound to a non-empty
\* alg, and every signature made through it is made by the key's
\* SignWithAlgorithm with a non-empty algorithm: the bound alg for Sign and
\* for SignWithAlgorithm called with "", the caller's algorithm for
\* SignWithAlgorithm called with one.
C19_SignsWithBoundAlgorithm ==
  signer.impl = "fixedAlgorithmSigner" =>
    /\ signer.alg # ""
    /\ signature.call # "" =>
         /\ signature.made.by = "SignWithAlgorithm"
         /\ signature.made.type = PublicKeyType(signer)
         /\ signature.made.alg # ""
         /\ signature.call = "Sign" => signature.made.alg = signer.alg
         /\ signature.call = "SignWithAlgorithm" =>
              signature.made.alg =
                IF signature.alg # "" THEN signature.alg ELSE signer.alg

\* C19 witness: AlgSigner has wrapped an RSA certificate key with
\* rsa-sha2-512, SignWithAlgorithm was called on the wrapper with "", and
\* the key has signed with rsa-sha2-512.
C19_Witness ==
  /\ args = [s |-> KeySigner(CertAlgoRSAv01, TRUE), alg |-> "rsa-sha2-512"]
  /\ signer = fixedAlgorithmSigner(args.s, args.alg)
  /\ signature.call = "SignWithAlgorithm"
  /\ signature.alg = ""
  /\ signature.made = KeySignWithAlgorithm(args.s, "rsa-sha2-512")

====
